---- MODULE Spec2Model ----
(***************************************************************************)
(* The Door: frame player, frame sources and output pipeline.              *)
(*                                                                         *)
(* Time.  time.time() is the variable now, counted in ticks of 1/MAX_FPS   *)
(* second.  A stored timestamp is 0 (the value the constructors assign,    *)
(* the epoch) or a tick in 1..MaxTime.  Only differences now - t are ever  *)
(* read by the code, and every threshold they are compared with is below   *)
(* Horizon, so when the clock would pass MaxTime the clock and the stored  *)
(* timestamps are shifted down together (a timestamp never below 1): the   *)
(* differences that matter are kept and the state space stays finite.      *)
(***************************************************************************)
EXTENDS Integers, Sequences, FiniteSets, TLC

VARIABLES now, player, gifFramer, last, gifLast, framingGif, framingLast,
          panel, ledmat, ledLast,
          accumulator, accLast,
          stream, worker, render, handoff, streamLast,
          colorField,
          snow, snowLast

vars ==
    <<now, player, gifFramer, last, gifLast, framingGif, framingLast,
      panel, ledmat, ledLast, accumulator, accLast,
      stream, worker, render, handoff, streamLast, colorField,
      snow, snowLast>>

\* ---------------------------------------------------------------- bounds
MaxFrames == 3
MaxDuration == 2
MaxSendTicks == 1
ClockSpan == 2
MaxWidth == 2
MaxHeight == 2
MaxBlank == 1
MaxAccWidth == 3
MaxBatches == 2
MaxStops == 3
MaxValueSteps == 4
MaxFlakes == 2

\* ------------------------------------------------------------- constants
MAX_FPS == 60
StaticFramerate == 0
GifFramerate == 100
FramingGifFramerate == 15

TicksPerSecond == MAX_FPS

Min(a, b) == IF a < b THEN a ELSE b

LoopModes == {"LOOP", "BOUNCE", "ONCE"}
FramerKinds == {"None", "StaticFramer", "GifFramer"}
FramerateInputs == {0, 30, 60, 100}
SlowestRate ==
    CHOOSE r \in FramerateInputs \ {0} : \A q \in FramerateInputs \ {0} : r <= q

\* Every interval the code compares an elapsed time with is below Horizon.
Horizon == MaxDuration + TicksPerSecond \div SlowestRate + 1
StartTime == Horizon
MaxTime == Horizon + ClockSpan

\* duration_s of frame i of the GIF, in ticks
FrameDuration(i) == 1 + (i % MaxDuration)

\* A Python list index: i in 0..n-1, or a negative index counted from the
\* end; anything else raises IndexError (result -1 here means IndexError).
PyIndex(i, n) ==
    IF i >= 0 /\ i < n THEN i
    ELSE IF i < 0 /\ i >= 0 - n THEN n + i
    ELSE -1

\* ------------------------------------------------------------------ clock
Shift(d) == IF now + d > MaxTime THEN now + d - MaxTime ELSE 0

Rebase(t, s) == IF t = 0 THEN 0 ELSE IF t - s < 1 THEN 1 ELSE t - s

AdvanceTo(d) == IF now + d > MaxTime THEN MaxTime ELSE now + d

\* ------------------------------------------- frames/framers/gifframer.py
\* GifFramer.update() called at time t: the new object state, the frame
\* returned (<<i>> for frames[i], <<>> for None) and the exception raised.
\* update() that treats the end of the GIF in LOOP mode as in ONCE mode
GifFramer_update_loop_ends(g, t) ==
    LET cur == PyIndex(g.current_frame, g.num_frames) IN
    IF cur = -1
    THEN [gif |-> g, ret |-> <<>>, exc |-> "IndexError"]
    ELSE IF (t - g.last_update_time) > FrameDuration(cur)
    THEN LET step == g.current_frame + 1
             g1 == [g EXCEPT !.last_update_time = t, !.current_frame = step]
         IN  IF step = g.num_frames
             THEN [gif |-> g1, ret |-> <<>>, exc |-> "none"]
             ELSE [gif |-> g1, ret |-> <<step>>, exc |-> "none"]
    ELSE [gif |-> g, ret |-> <<cur>>, exc |-> "none"]

GifFramer_update_result(g, t) ==
    LET cur == PyIndex(g.current_frame, g.num_frames) IN
    IF cur = -1
    THEN [gif |-> g, ret |-> <<>>, exc |-> "IndexError"]
    ELSE IF (t - g.last_update_time) > FrameDuration(cur)
    THEN LET step == g.current_frame + (IF g.play_forward THEN 1 ELSE -1)
             g1 == [g EXCEPT !.last_update_time = t, !.current_frame = step]
         IN  IF step = g.num_frames \/ step = -1
             THEN IF g.loop_mode = "LOOP"
                  THEN [gif |-> [g1 EXCEPT !.current_frame = 0],
                        ret |-> <<0>>, exc |-> "none"]
                  ELSE IF g.loop_mode = "BOUNCE"
                  THEN LET back == step + (IF g.play_forward THEN -1 ELSE 1)
                           g2 == [g1 EXCEPT !.current_frame = back,
                                            !.play_forward = ~g.play_forward]
                       IN  IF PyIndex(back, g.num_frames) = -1
                           THEN [gif |-> g2, ret |-> <<>>, exc |-> "IndexError"]
                           ELSE [gif |-> g2,
                                 ret |-> <<PyIndex(back, g.num_frames)>>,
                                 exc |-> "none"]
                  ELSE [gif |-> g1, ret |-> <<>>, exc |-> "none"]
             ELSE [gif |-> g1, ret |-> <<step>>, exc |-> "none"]
    ELSE [gif |-> g, ret |-> <<cur>>, exc |-> "none"]

GifFramer_reset_result(g, t) ==
    [g EXCEPT !.current_frame = 0, !.last_update_time = t,
              !.play_forward = TRUE]

\* ------------------------------------------ framing/framers/gifframer.py
\* GifFramer.update() of the framing package: returns (matrix, dt), with
\* matrix <<i>> for frames[i] and <<>> for None, dt in ticks.
FramingGifFramer_update_result(g) ==
    LET atEnd == g.frame_idx = g.num_frames \/ g.frame_idx = -1
        idx == IF atEnd /\ g.loop_mode = "LOOP" THEN 0
               ELSE IF atEnd /\ g.loop_mode = "BOUNCE"
               THEN g.frame_idx + (IF g.play_forward THEN -1 ELSE 1)
               ELSE g.frame_idx
        fwd == IF atEnd /\ g.loop_mode = "BOUNCE"
               THEN ~g.play_forward ELSE g.play_forward
        cur == PyIndex(idx, g.num_frames)
    IN  IF atEnd /\ g.loop_mode = "ONCE"
        THEN [gif |-> g, ret |-> <<>>, dt |-> 0, exc |-> "none"]
        ELSE IF cur = -1
        THEN [gif |-> [g EXCEPT !.frame_idx = idx, !.play_forward = fwd],
              ret |-> <<>>, dt |-> 0, exc |-> "IndexError"]
        ELSE [gif |-> [g EXCEPT !.frame_idx = idx + (IF fwd THEN 1 ELSE -1),
                                !.play_forward = fwd,
                                !.matrix = <<cur>>,
                                !.dt = FrameDuration(cur)],
              ret |-> <<cur>>, dt |-> FrameDuration(cur), exc |-> "none"]

FramingGifFramer_reset_result(g) ==
    [g EXCEPT !.frame_idx = 0, !.play_forward = TRUE]

\* ------------------------------------------------- frames/frameplayer.py
\* frame_interval is the rational <<num, den>>: 1/framerate, or -1.
FrameInterval(fr) == IF fr # 0 THEN <<1, fr>> ELSE <<-1, 1>>

\* the setter without the MAX_FPS clamp
framerate_setter_unclamped(p, r) ==
    [p EXCEPT !.framerate = r, !.frame_interval = FrameInterval(r)]

framerate_setter(p, r) ==
    LET fr == Min(r, MAX_FPS) IN
    [p EXCEPT !.framerate = fr, !.frame_interval = FrameInterval(fr)]

FramerFramerate(f) ==
    IF f = "StaticFramer" THEN StaticFramerate ELSE GifFramerate

set_framer_result(p, f) ==
    IF f # "None"
    THEN LET p1 == framerate_setter([p EXCEPT !.framer = f], FramerFramerate(f))
         IN  [p1 EXCEPT !.frame_interval = FrameInterval(p1.framerate)]
    ELSE framerate_setter([p EXCEPT !.framer = "None"], 0)

\* elapsed_time >= self.frame_interval, elapsed in ticks
IntervalElapsed(elapsed, interval) ==
    elapsed * interval[2] >= interval[1] * TicksPerSecond

\* A plain Enum member is always true in a boolean context.
EnumTruth(member) == TRUE

\* The frame a framer hands to the player: the static image, or frame i.
Frame(src, idx) == [src |-> src, idx |-> idx]

\* self.framer.update() at time t
FramerUpdate(f, g, t) ==
    IF f = "StaticFramer"
    THEN [gif |-> g, ret |-> <<Frame("static", 0)>>, exc |-> "none"]
    ELSE LET r == GifFramer_update_result(g, t) IN
         [gif |-> r.gif, exc |-> r.exc,
          ret |-> IF r.ret = <<>> THEN <<>> ELSE <<Frame("gif", r.ret[1])>>]

\* self.framer.reset() at time t
FramerReset(f, g, t) ==
    IF f = "GifFramer" THEN GifFramer_reset_result(g, t) ELSE g

\* What one call on the player did: the operation, the playing_state it
\* was called in, its argument, the exception raised ("none" if it
\* returned), the value returned (<<>> for no value), the frame handed to
\* led_matrix.send_matrix, what self.framer.update() gave ("not called",
\* "frame", "None" or "raise") and whether self.framer.reset() ran.
Outcome(op, was, arg, exc, ret, sent, framer_update, framer_reset) ==
    [op |-> op, was |-> was, arg |-> arg, exc |-> exc, ret |-> ret,
     sent |-> sent, framer_update |-> framer_update,
     framer_reset |-> framer_reset]

Quiet(op, was, arg, exc) ==
    Outcome(op, was, arg, exc, <<>>, <<>>, "not called", FALSE)

\* stop() that keeps the timing state
stop_keeps_time(p, g, t) ==
    LET p1 == [p EXCEPT !.playing_state = "STOPPED"]
    IN  IF p.framer = "None"
        THEN [player |-> p1, gif |-> g, exc |-> "AttributeError", reset |-> FALSE]
        ELSE [player |-> p1, gif |-> FramerReset(p.framer, g, t),
              exc |-> "none", reset |-> TRUE]

\* stop(): the new player, the new framer state, and what happened
stop_result(p, g, t) ==
    LET p1 == [p EXCEPT !.playing_state = "STOPPED", !.last_update_time = 0]
    IN  IF p.framer = "None"
        THEN [player |-> p1, gif |-> g, exc |-> "AttributeError", reset |-> FALSE]
        ELSE [player |-> p1, gif |-> FramerReset(p.framer, g, t),
              exc |-> "none", reset |-> TRUE]

\* play() that marks the player Playing before it looks for the framer
play_sets_state_first(p) ==
    IF p.framer = "None"
    THEN [player |-> [p EXCEPT !.playing_state = "PLAYING"],
          exc |-> "ValueError"]
    ELSE [player |-> [p EXCEPT !.playing_state = "PLAYING"], exc |-> "none"]

play_result(p) ==
    IF p.framer = "None"
    THEN [player |-> p, exc |-> "ValueError"]
    ELSE [player |-> [p EXCEPT !.playing_state = "PLAYING"], exc |-> "none"]

pause_result(p) == [p EXCEPT !.is_playing = "False"]

\* update() entered at time t; d ticks pass while a frame is sent.
\* ret is <<v>> for a returned number of ticks, <<>> for no value.
update_result(p, g, t, d) ==
    LET Did(exc, ret, sent, fu, fr) ==
            Outcome("update", p.playing_state, 0, exc, ret, sent, fu, fr)
    IN
    IF p.framer = "None"
    THEN [player |-> p, gif |-> g, d |-> 0,
          out |-> Did("ValueError", <<>>, <<>>, "not called", FALSE)]
    ELSE IF ~EnumTruth("PLAYING")
    THEN [player |-> p, gif |-> g, d |-> 0,
          out |-> Did("none", <<>>, <<>>, "not called", FALSE)]
    ELSE IF p.framerate = 0
    THEN LET f == FramerUpdate(p.framer, g, t) IN
         IF f.exc # "none"
         THEN [player |-> p, gif |-> f.gif, d |-> 0,
               out |-> Did(f.exc, <<>>, <<>>, "raise", FALSE)]
         ELSE IF f.ret = <<>>
         \* send_matrix(None): map_matrix subscripts None
         THEN [player |-> p, gif |-> f.gif, d |-> 0,
               out |-> Did("TypeError", <<>>, <<>>, "None", FALSE)]
         ELSE LET s == stop_result(p, f.gif, t + d) IN
              [player |-> s.player, gif |-> s.gif, d |-> d,
               out |-> Did(s.exc, <<-1>>, f.ret, "frame", s.reset)]
    ELSE IF IntervalElapsed(t - p.last_update_time, p.frame_interval)
    THEN LET p1 == [p EXCEPT !.last_update_time = t]
             f == FramerUpdate(p.framer, g, t)
         IN  IF f.exc # "none"
             THEN [player |-> p1, gif |-> f.gif, d |-> 0,
                   out |-> Did(f.exc, <<>>, <<>>, "raise", FALSE)]
             ELSE IF f.ret # <<>>
             THEN [player |-> p1, gif |-> f.gif, d |-> d,
                   out |-> Did("none", <<d>>, f.ret, "frame", FALSE)]
             ELSE LET s == stop_result(p1, f.gif, t) IN
                  [player |-> s.player, gif |-> s.gif, d |-> 0,
                   out |-> Did(s.exc, <<-1>>, <<>>, "None", s.reset)]
    ELSE [player |-> p, gif |-> g, d |-> 0,
          out |-> Did("none", <<-1>>, <<>>, "not called", FALSE)]

\* update() entered at time t when the write on the serial port inside
\* send_matrix() raises: the statements after the call are not executed.
\* reached tells whether update() got as far as send_matrix().
update_write_fails_result(p, g, t) ==
    LET Raised(p1, f) ==
            [player |-> p1, gif |-> f.gif, reached |-> TRUE,
             out |-> Outcome("update", p.playing_state, 0, "SerialException",
                             <<>>, <<>>, "frame", FALSE)]
        NotReached == [player |-> p, gif |-> g, reached |-> FALSE,
                       out |-> Quiet("update", p.playing_state, 0, "none")]
    IN
    IF p.framer = "None" \/ ~EnumTruth("PLAYING")
    THEN NotReached
    ELSE IF p.framerate = 0
    THEN LET f == FramerUpdate(p.framer, g, t) IN
         IF f.exc # "none" \/ f.ret = <<>> THEN NotReached
         ELSE Raised(p, f)
    ELSE IF IntervalElapsed(t - p.last_update_time, p.frame_interval)
    THEN LET f == FramerUpdate(p.framer, g, t) IN
         IF f.exc # "none" \/ f.ret = <<>> THEN NotReached
         ELSE Raised([p EXCEPT !.last_update_time = t], f)
    ELSE NotReached

\* ------------------------------------------------------------------ state
NewGif(n, mode) ==
    [num_frames |-> n, loop_mode |-> mode, current_frame |-> 0,
     last_update_time |-> 0, play_forward |-> TRUE]

NewFramingGif(n, mode) ==
    [num_frames |-> n, loop_mode |-> mode, frame_idx |-> 0,
     play_forward |-> TRUE, matrix |-> <<>>,
     dt |-> TicksPerSecond \div FramingGifFramerate]

NewPlayer ==
    [set_framer_result([framer |-> "None", framerate |-> 0,
                        frame_interval |-> <<-1, 1>>,
                        playing_state |-> "STOPPED", last_update_time |-> 0,
                        is_playing |-> "unset"], "None")
     EXCEPT !.playing_state = "STOPPED", !.last_update_time = 0]

\* What one call on a GIF framer did: the frame returned (<<i>>, or <<>> for
\* None), whether it was the first update() since construction or reset(),
\* and what the update() before it returned.
FramerInit == [op |-> "init", ret |-> <<>>, dt |-> 0, exc |-> "none",
               first |-> FALSE, prev |-> <<>>]

FramerWasReset == [FramerInit EXCEPT !.op = "reset"]

FramerUpdated(old, r, dt) ==
    [op |-> "update", ret |-> r.ret, dt |-> dt, exc |-> r.exc,
     first |-> old.op # "update",
     prev |-> IF old.op = "update" THEN old.ret ELSE <<>>]

\* ------------------------------------------------------------ LED matrix
\* ledmat.py.  WIDTH, HEIGHT and BLANK_PIXELS are class constants: they are
\* the fields of the variable panel, chosen at construction and never
\* changed.  A fraction is a pair <<numerator, denominator>>.  gamma is a
\* whole exponent, so that the lookup table is computed exactly.
RGB_ORDER == <<1, 0, 2>>
SOF_FLAG == 42
DefaultBrightness == <<1, 4>>
BrightnessInputs == {<<0, 1>>, <<1, 1>>, <<2, 1>>}
ContrastInputs == {<<1, 2>>, <<1, 1>>, <<2, 1>>}
GammaInputs == {1, 2}
FrameInputs == {"white", "ramp"}
Uint8Casts == {"wrap", "saturate"}

Panels ==
    UNION { { [WIDTH |-> w, HEIGHT |-> h, BLANK_PIXELS |-> b] :
                b \in { s \in SUBSET ((0..(h - 1)) \X (0..(w - 1))) :
                          Cardinality(s) <= MaxBlank } } :
            w \in 1..MaxWidth, h \in 1..MaxHeight }

NUM_LEDS(pn) == pn.WIDTH * pn.HEIGHT - Cardinality(pn.BLANK_PIXELS)

\* The channel values of the frames that are submitted: all white, and one
\* whose channel values are pairwise different and start at 0.
FrameValue(frame, pn, px) ==
    IF frame = "white" THEN 255
    ELSE (((px[1] * pn.WIDTH + px[2]) * 3 + px[3]) * 7) % 256

\* numpy's round(): n/d to the nearest integer, a tie to the even one
RoundHalfEven(n, d) ==
    LET q == n \div d
        r == n % d
    IN  IF 2 * r < d THEN q
        ELSE IF 2 * r > d THEN q + 1
        ELSE IF q % 2 = 0 THEN q ELSE q + 1

\* astype(np.uint8) of a float: exact inside 0..255, undefined outside it,
\* where a build either wraps modulo 256 or saturates
astype_uint8(k, cast) ==
    IF k \in 0..255 THEN k
    ELSE IF cast = "wrap" THEN k % 256
    ELSE IF k < 0 THEN 0 ELSE 255

rows_top_first(col, h) ==
    [k \in 1..h |-> IF col % 2 = 0 THEN k - 1 ELSE h - k]

\* the rows of one column in wiring order (position 1..h)
rows(col, h) ==
    [k \in 1..h |-> IF col % 2 = 0 THEN h - k ELSE k - 1]

\* the entries written from column col, position k of that column, onwards
RECURSIVE idx_map_from(_, _, _)
idx_map_from(pn, col, k) ==
    IF col >= pn.WIDTH THEN <<>>
    ELSE IF k > pn.HEIGHT THEN idx_map_from(pn, col + 1, 1)
    ELSE LET row == rows(col, pn.HEIGHT)[k] IN
         (IF <<row, col>> \in pn.BLANK_PIXELS THEN <<>>
          ELSE [c \in 1..3 |-> <<row, col, RGB_ORDER[c]>>])
         \o idx_map_from(pn, col, k + 1)

generate_idx_map_keeps_blanks(pn) ==
    LET filled == idx_map_from([pn EXCEPT !.BLANK_PIXELS = {}], 0, 1) IN
    [i \in 1..(3 * NUM_LEDS(pn)) |->
        IF i <= Len(filled) THEN filled[i] ELSE <<0, 0, 0>>]

\* idx_map is allocated with NUM_LEDS * 3 zero entries and filled in order
generate_idx_map(pn) ==
    LET filled == idx_map_from(pn, 0, 1) IN
    [i \in 1..(3 * NUM_LEDS(pn)) |->
        IF i <= Len(filled) THEN filled[i] ELSE <<0, 0, 0>>]

gen_gamma_lut(g) ==
    [i \in 0..255 |-> RoundHalfEven(i ^ g, 255 ^ (g - 1))]

map_matrix(lm, pn, frame) ==
    [i \in 1..Len(lm.idx_map) |-> FrameValue(frame, pn, lm.idx_map[i])]

\* One channel value through _apply_color_correction: contrast about the
\* mid level, clip to [0, 255], brightness, then the table lookup at the
\* rounded value cast to uint8.
correct_value(lm, p, cast) ==
    LET cn == lm._contrast[1]
        cd == lm._contrast[2]
        bn == lm._brightness[1]
        bd == lm._brightness[2]
        den == 2 * cd
        num == cn * (2 * p - 255) + 255 * cd
        clipped == IF num < 0 THEN 0
                   ELSE IF num > 255 * den THEN 255 * den ELSE num
        k == RoundHalfEven(clipped * bn, den * bd)
    IN  lm.gamma_lut[astype_uint8(k, cast)]

apply_color_correction(lm, pixel_data, cast) ==
    [i \in 1..Len(pixel_data) |-> correct_value(lm, pixel_data[i], cast)]

send_pixels_data_first(lm, pixels, cast) ==
    LET lm1 == [lm EXCEPT !.pixel_data = pixels] IN
    [ledmat |-> lm1,
     wire |-> <<apply_color_correction(lm1, lm1.pixel_data, cast),
                <<SOF_FLAG>>>>]

send_pixels_keeps_corrected(lm, pixels, cast) ==
    LET lm1 == [lm EXCEPT !.pixel_data = pixels]
        corrected == apply_color_correction(lm1, lm1.pixel_data, cast)
    IN  [ledmat |-> [lm1 EXCEPT !.pixel_data = corrected],
         wire |-> <<<<SOF_FLAG>>, corrected>>]

\* the new driver state and the writes made on the serial port, in order
send_pixels(lm, pixels, cast) ==
    LET lm1 == [lm EXCEPT !.pixel_data = pixels] IN
    [ledmat |-> lm1,
     wire |-> <<<<SOF_FLAG>>,
                apply_color_correction(lm1, lm1.pixel_data, cast)>>]

send_matrix_result(lm, pn, frame, cast) ==
    send_pixels(lm, map_matrix(lm, pn, frame), cast)

refresh_result(lm, cast) == send_pixels(lm, lm.pixel_data, cast)

brightness_setter(lm, value) == [lm EXCEPT !._brightness = value]

\* contrast and gamma are defined at module level, after the class body:
\* LEDMatrix has no such properties, and led_matrix.contrast = value creates
\* a plain instance attribute named contrast.  No code reads that
\* attribute, so it is not kept: the fields the driver reads stay as they
\* are.
contrast_setter(lm, value) == lm

gamma_setter(lm, value) == lm

LEDMatrix_init(pn, brightness, contrast, gamma) ==
    [idx_map |-> generate_idx_map(pn),
     _brightness |-> brightness,
     _contrast |-> contrast,
     _gamma |-> gamma,
     gamma_lut |-> gen_gamma_lut(gamma),
     pixel_data |-> [i \in 1..(3 * NUM_LEDS(pn)) |-> 0]]

\* What the last call on the driver was: its argument, the writes it made,
\* the cast the build applied, and the last frame given to send_matrix.
LedCall(op, value, wire, cast, submitted) ==
    [op |-> op, value |-> value, wire |-> wire, cast |-> cast,
     submitted |-> submitted]

LedBuilt == LedCall("init", <<>>, <<>>, "none", "none")

\* The specifications of the player and of the accumulator construct no
\* driver: there the driver's variables hold this placeholder throughout.
LedIdle ==
    /\ panel = [WIDTH |-> 0, HEIGHT |-> 0, BLANK_PIXELS |-> {}]
    /\ ledmat = [LEDMatrix_init(panel, DefaultBrightness, <<1, 1>>, 1)
                   EXCEPT !.gamma_lut = <<>>]
    /\ ledLast = LedBuilt

\* ------------------------------------------------------- snow accumulator
\* animsnowflake.py, class Accumulator.  bins is the list of slots, one per
\* column (slot x of the code is bins[x + 1]); a slot holds 0 for None or
\* the reference of a Bin object, and heap maps a reference to the object
\* (<<>> for a reference not in use), so that the slots of a wide bin share
\* one object as they do in the code.  settled is not a field of the code:
\* it is the sum of the sizes that were added to the bin.  The three colour
\* channels go through the same arithmetic; one is kept.
SnowflakeSizes == {1, 3}
ColorInputs == {240}
AccHeights == {2, 3}
BinLevelScalers == {1, 2}

\* Where a snowflake lands, in half columns: the middle of every column,
\* and the half and whole columns next to the two edges.
Landings(width) ==
    {-3, -2, -1, 2 * width - 1, 2 * width} \cup
    { 2 * c : c \in 0..(width - 1) }

Snowflakes(width) ==
    { [size |-> s, x2 |-> x2, color |-> c] :
        s \in SnowflakeSizes, x2 \in Landings(width), c \in ColorInputs }

Bin_full_above(b) == b._level > b.full_level

Bin_full(b) == b._level >= b.full_level

level_setter(b, value) ==
    [b EXCEPT !._level = IF Min(value, b.full_level) < 0 THEN 0
                         ELSE Min(value, b.full_level)]

current_color(b) == RoundHalfEven(b.color * b._level, b.full_level)

blend_colors(color1, color2) == RoundHalfEven(color1 + 4 * color2, 5)

Accumulator_init(height, width, bin_level_scaler) ==
    [matrix |-> [r \in 1..height |-> [c \in 1..width |-> 0]],
     bins |-> [c \in 1..width |-> 0],
     heap |-> [r \in 1..width |-> <<>>],
     layers |-> 1,
     bin_level_scaler |-> bin_level_scaler]

AccWidth(acc) == Len(acc.bins)
AccHeight(acc) == Len(acc.matrix)

\* bins[x] of the code: <<>> for None, else <<the Bin object>>
BinAt(acc, x) ==
    IF acc.bins[x + 1] = 0 THEN <<>> ELSE acc.heap[acc.bins[x + 1]]

\* a reference for a new object; objects no slot refers to are dropped
FreeRef(acc) ==
    CHOOSE r \in 1..AccWidth(acc) :
        /\ acc.heap[r] = <<>>
        /\ \A q \in 1..(r - 1) : acc.heap[q] # <<>>

Collect(acc) ==
    [acc EXCEPT !.heap =
        [r \in 1..AccWidth(acc) |->
            IF \E c \in 1..AccWidth(acc) : acc.bins[c] = r
            THEN acc.heap[r] ELSE <<>>]]

\* self.matrix[-self.layers, start:end] = color
paint(acc, start, end, color) ==
    LET row == PyIndex(-acc.layers, AccHeight(acc)) IN
    [acc EXCEPT !.matrix[row + 1] =
        [c \in 1..AccWidth(acc) |->
            IF c - 1 >= start /\ c - 1 < end THEN color
            ELSE acc.matrix[row + 1][c]]]

add_to_bin(acc, ref, snowflake) ==
    LET b0 == acc.heap[ref][1]
        b1 == level_setter(b0, b0._level + snowflake.size)
        b2 == [b1 EXCEPT !.color = blend_colors(snowflake.color, b1.color),
                         !.settled = b0.settled + snowflake.size]
    IN  IF acc.layers > AccHeight(acc)
        THEN [acc |-> [acc EXCEPT !.heap[ref] = <<b2>>],
              exc |-> "IndexError"]
        ELSE [acc |-> paint([acc EXCEPT !.heap[ref] = <<b2>>],
                            b2.idx, b2.idx + b2.width, current_color(b2)),
              exc |-> "none"]

search_right_blind(acc, right_idx, n) ==
    IF n <= 0 THEN right_idx ELSE right_idx + n

\* the right end after at most n steps over empty slots
RECURSIVE search_right(_, _, _)
search_right(acc, right_idx, n) ==
    IF n <= 0 THEN right_idx
    ELSE IF BinAt(acc, right_idx + 1) = <<>>
         THEN search_right(acc, right_idx + 1, n - 1)
         ELSE right_idx

RECURSIVE search_left(_, _, _)
search_left(acc, left_idx, n) ==
    IF n <= 0 THEN left_idx
    ELSE IF BinAt(acc, left_idx - 1) = <<>>
         THEN search_left(acc, left_idx - 1, n - 1)
         ELSE left_idx

\* the number of empty slots in the run of empty slots that holds column x
FreeRun(acc, x) ==
    Cardinality({ c \in 0..(AccWidth(acc) - 1) :
                    \A d \in 0..(AccWidth(acc) - 1) :
                        ((c <= d /\ d <= x) \/ (x <= d /\ d <= c)) =>
                            BinAt(acc, d) = <<>> })

\* made is not a value of the code: it tells what _new_bin was called with,
\* the slots it gave to the new bin, the empty run it found them in, and
\* how many of the slots it wrote held a bin before.
new_bin(acc, x, snowflake) ==
    IF BinAt(acc, x) # <<>>
    THEN [acc |-> acc, exc |-> "AssertionError", made |-> <<>>]
    ELSE LET desired_width == snowflake.size
             right_idx ==
                 search_right(acc, x,
                     Min(desired_width - 1, AccWidth(acc) - x) - 1)
             left_idx ==
                 search_left(acc, x,
                     Min(desired_width - (right_idx - x + 1) - 1, x))
             actual_width == right_idx - left_idx + 1
             ref == FreeRef(acc)
             bin == [idx |-> left_idx, width |-> actual_width,
                     full_level |-> snowflake.size * acc.bin_level_scaler,
                     color |-> snowflake.color, _level |-> 0,
                     settled |-> 0]
             placed ==
                 [acc EXCEPT
                    !.heap[ref] = <<bin>>,
                    !.bins = [c \in 1..AccWidth(acc) |->
                                 IF c - 1 >= left_idx /\ c - 1 <= right_idx
                                 THEN ref ELSE acc.bins[c]]]
             added == add_to_bin(placed, ref, snowflake)
         IN  [acc |-> added.acc, exc |-> added.exc,
              made |-> <<[x |-> x, size |-> desired_width, idx |-> left_idx,
                          width |-> actual_width, room |-> FreeRun(acc, x),
                          taken |-> Cardinality(
                              { c \in left_idx..right_idx :
                                  BinAt(acc, c) # <<>> })]>>]

Fillable(acc, i) ==
    BinAt(acc, i) = <<>> \/ ~Bin_full(BinAt(acc, i)[1])

RECURSIVE closest_left_only(_, _, _)
closest_left_only(acc, left_idx, right_idx) ==
    IF left_idx >= 0 /\ Fillable(acc, left_idx) THEN <<left_idx>>
    ELSE IF left_idx < 0 THEN <<>>
    ELSE closest_left_only(acc, left_idx - 1, right_idx + 1)

\* <<i>> for the index returned, <<>> when the loop is left by break
RECURSIVE closest_from(_, _, _)
closest_from(acc, left_idx, right_idx) ==
    IF left_idx >= 0 /\ Fillable(acc, left_idx) THEN <<left_idx>>
    ELSE IF right_idx < AccWidth(acc) /\ Fillable(acc, right_idx)
         THEN <<right_idx>>
    ELSE IF left_idx < 0 /\ right_idx >= AccWidth(acc) THEN <<>>
    ELSE closest_from(acc, left_idx - 1, right_idx + 1)

closest_fillable_bin_idx(acc, x) == closest_from(acc, x - 1, x + 1)

Settled(r, into_full, searched) ==
    [acc |-> r.acc, exc |-> r.exc, into_full |-> into_full,
     searched |-> searched,
     made |-> IF "made" \in DOMAIN r THEN r.made ELSE <<>>]

\* The first half of accumulate(): the snowflake goes into the bin at x,
\* into the closest fillable one, or into a new one.  into_full tells
\* whether the bin that took it was full before the call, searched whether
\* _closest_fillable_bin_idx was called.
settle(acc, x, snowflake) ==
    LET here == BinAt(acc, x) IN
    IF here # <<>>
    THEN IF ~Bin_full(here[1])
         THEN Settled(add_to_bin(acc, acc.bins[x + 1], snowflake),
                      Bin_full(here[1]), FALSE)
         ELSE LET closest == closest_fillable_bin_idx(acc, x) IN
              IF closest = <<>>
              THEN Settled([acc |-> acc, exc |-> "RuntimeError"],
                           FALSE, TRUE)
              ELSE IF BinAt(acc, closest[1]) # <<>>
              THEN Settled(add_to_bin(acc, acc.bins[closest[1] + 1],
                                      snowflake),
                           Bin_full(BinAt(acc, closest[1])[1]), TRUE)
              ELSE Settled(new_bin(acc, closest[1], snowflake), FALSE, TRUE)
    ELSE Settled(new_bin(acc, x, snowflake), FALSE, FALSE)

Covered(acc) ==
    \A x \in 0..(AccWidth(acc) - 1) :
        IF BinAt(acc, x) # <<>> THEN Bin_full(BinAt(acc, x)[1]) ELSE FALSE

promote_keeps_bins(acc) ==
    IF Covered(acc)
    THEN LET a1 == [acc EXCEPT !.layers = acc.layers + 1] IN
         IF a1.layers = AccHeight(a1)
         THEN [a1 EXCEPT
                 !.matrix = [r \in 1..AccHeight(a1) |->
                                [c \in 1..AccWidth(a1) |-> 0]],
                 !.layers = 1]
         ELSE a1
    ELSE acc

promote_keeps_pile(acc) ==
    IF Covered(acc)
    THEN [acc EXCEPT !.layers = acc.layers + 1,
                     !.bins = [c \in 1..AccWidth(acc) |-> 0]]
    ELSE acc

\* the second half of accumulate(): a covered row starts the next layer
promote(acc) ==
    IF Covered(acc)
    THEN LET a1 == [acc EXCEPT !.layers = acc.layers + 1,
                               !.bins = [c \in 1..AccWidth(acc) |-> 0]]
         IN  IF a1.layers = AccHeight(a1)
             THEN [a1 EXCEPT
                     !.matrix = [r \in 1..AccHeight(a1) |->
                                    [c \in 1..AccWidth(a1) |-> 0]],
                     !.layers = 1]
             ELSE a1
    ELSE acc

\* What one accumulate() did: whether round(x) was a column, what it
\* returned (<<>> when it raised), whether the settling covered the row,
\* the layer count before, whether the bin that took the snowflake was
\* full before, and whether the closest fillable bin was searched for.
AccCall(op, on_pile, ret, exc, covered, before, into_full, searched, made) ==
    [op |-> op, on_pile |-> on_pile, ret |-> ret, exc |-> exc,
     covered |-> covered, layers_before |-> before,
     into_full |-> into_full, searched |-> searched, made |-> made]

AccBuilt ==
    AccCall("init", FALSE, <<>>, "none", FALSE, 1, FALSE, FALSE, <<>>)

accumulate_result(acc, snowflake) ==
    LET snowflake_x == RoundHalfEven(snowflake.x2, 2) IN
    IF snowflake_x < 0 \/ snowflake_x >= AccWidth(acc)
    THEN [acc |-> acc,
          out |-> AccCall("accumulate", FALSE, <<FALSE>>, "none", FALSE,
                          acc.layers, FALSE, FALSE, <<>>)]
    ELSE LET s == settle(acc, snowflake_x, snowflake) IN
         IF s.exc # "none"
         THEN [acc |-> Collect(s.acc),
               out |-> AccCall("accumulate", TRUE, <<>>, s.exc, FALSE,
                               acc.layers, s.into_full, s.searched,
                               s.made)]
         ELSE [acc |-> Collect(promote(s.acc)),
               out |-> AccCall("accumulate", TRUE, <<TRUE>>, "none",
                               Covered(s.acc), acc.layers, s.into_full,
                               s.searched, s.made)]

AccIdle ==
    /\ accumulator = Accumulator_init(2, 1, 1)
    /\ accLast = AccBuilt

\* --------------------------------------------------------- stream framer
\* framing/framers/streamframer.py.  Two threads share the StreamFramer
\* object: the worker thread started by the constructor, which polls the
\* server and calls new_data(), and the thread that calls update() and
\* kill().  Each takes one statement at a time, and the statements of the
\* two interleave in every order.  worker.pc and render.pc are the
\* statements they are at.  time.time() is the field time of render, in
\* ticks.  A decoded payload is either a JSON object (one frame, with its
\* matrix and duration_s) or a JSON list of such objects; batch numbers the
\* payloads in order of arrival.  handoff is not a value of the code: it
\* tells which call of new_data() (0: the constructor) last assigned each
\* of the three fields, and whether the last new_data() ran with no
\* statement of update() in between.

PayloadKinds == {"frame", "list"}

StreamItem(kind, batch, i) == [kind |-> kind, batch |-> batch, i |-> i]

StreamCall(op, ret, exc, torn, clean, n, idx) ==
    [op |-> op, ret |-> ret, exc |-> exc, torn |-> torn, clean |-> clean,
     n |-> n, idx |-> idx]

\* StreamFramer.__init__ has returned: the worker thread is started and
\* has not executed a statement of run()
StreamIdle ==
    /\ stream = [frames |-> <<>>, frame_idx |-> -1, frame_time |-> 0,
                 matrix |-> <<>>]
    /\ worker = [alive |-> FALSE, pc |-> "start", frames |-> <<>>]
    /\ render = [pc |-> "idle", time |-> 1, killed |-> FALSE, torn |-> FALSE]
    /\ handoff = [idx |-> 0, time |-> 0, frames |-> 0, clean |-> TRUE,
                  batches |-> 0]
    /\ streamLast = StreamCall("init", <<>>, "none", FALSE, TRUE, 0, -1)

\* ------------------------------------------------------------ color field
\* framing/framers/animations/colorfield.py.  The field function returns
\* one value for every pixel and the three channels of a colour go through
\* the same arithmetic: one pixel and one channel are kept.  A value is a
\* fraction <<numerator, denominator>>; color is <<>> before the first
\* frame, when an exception was raised, and else <<the channel value>>.
StopInputs == {0, 85, 255}

\* the red channel of _DEFAULT_COLOR_MAP
DefaultColorMap == <<255, 245, 0>>

ColorMapInputs ==
    UNION { [1..n -> StopInputs] : n \in 1..MaxStops }

\* the values of [0, 1] with a denominator up to MaxValueSteps
ValueInputs ==
    { v \in (0..MaxValueSteps) \X (1..MaxValueSteps) : v[1] <= v[2] }

\* _value_to_color without np.minimum: the index is not clamped, and a
\* subscript past the last stop raises IndexError (<<>>)
value_to_color_unclamped(color_map, value) ==
    LET num_colors == Len(color_map)
        first == (value[1] * (num_colors - 1)) \div value[2]
        pct == value[1] * (num_colors - 1) - first * value[2]
    IN  IF first + 2 > num_colors THEN <<>>
        ELSE <<RoundHalfEven(color_map[first + 1] * (value[2] - pct)
                               + color_map[first + 2] * pct, value[2])>>

\* _value_to_color for one pixel: first is first_color_indices, pct over
\* value[2] is color_percentages (value_spacing is 1 / (num_colors - 1))
value_to_color(color_map, value) ==
    LET num_colors == Len(color_map)
        first == Min((value[1] * (num_colors - 1)) \div value[2],
                     num_colors - 2)
        pct == value[1] * (num_colors - 1) - first * value[2]
    IN  <<RoundHalfEven(color_map[first + 1] * (value[2] - pct)
                          + color_map[first + 2] * pct, value[2])>>

ColorCall(color_map, op, value, color, exc) ==
    [color_map |-> color_map, op |-> op, value |-> value, color |-> color,
     exc |-> exc]

\* the setter of color_map
color_map_setter(cf, value) ==
    IF Len(value) < 2
    THEN ColorCall(cf.color_map, "color_map", <<>>, <<>>, "ValueError")
    ELSE ColorCall(value, "color_map", <<>>, <<>>, "none")

ColorIdle ==
    colorField = ColorCall(DefaultColorMap, "init", <<>>, <<>>, "none")

\* ---------------------------------------------------------- snow animation
\* animsnowflake.py, class AnimSnowflake, with trail_factor 0 and
\* interpolate False (the defaults).  WIDTH and HEIGHT are the width and
\* height of the accumulator's matrix.  Positions and speeds are whole
\* pixels: snowflake.x and snowflake.y are the fields x and y, and the step
\* wind_speed * speed_x of one update() is the wind, the same for every
\* snowflake.  The frame (self.matrix) is kept as the calls of place_in
\* made on it since it was last zeroed, in order, and the rows copied from
\* the accumulator below them.  bin_level_scaler is 50 in the code; the
\* accumulator of the animation is built with 1, so that a row is covered
\* by a few snowflakes.
SnowFrames == {<<3, 2>>}
SpeedInputs == {1, 2}
WindInputs == {-1, 0, 1}

in_frame_bottom_row(acc, snowflake) ==
    /\ snowflake.y + snowflake.size > 0
    /\ snowflake.y <= AccHeight(acc) - acc.layers
    /\ snowflake.x + snowflake.size > 0
    /\ snowflake.x < AccWidth(acc)

in_frame(acc, snowflake) ==
    /\ snowflake.y + snowflake.size > 0
    /\ snowflake.y < AccHeight(acc) - acc.layers
    /\ snowflake.x + snowflake.size > 0
    /\ snowflake.x < AccWidth(acc)

out_of_frame_any_side(acc, snowflake) == TRUE

\* the elif of the loop of update(): the snowflake is at or below the pile
below_frame(acc, snowflake) == snowflake.y >= AccHeight(acc) - acc.layers

\* _get_new_snowflake_positions: any pixel of the top edge, and any pixel
\* below it of the edge the wind blows from
new_snowflake_positions(acc, wind_speed) ==
    { <<x, 0>> : x \in 0..(AccWidth(acc) - 1) } \cup
    { <<IF wind_speed < 0 THEN AccWidth(acc) - 1 ELSE 0, y + 1>> :
        y \in IF wind_speed = 0 THEN {}
               ELSE 0..(AccHeight(acc) - acc.layers - 2) }

\* add_snowflake(x, y): the snowflake is placed outside the edge it enters
\* by and inserted behind the snowflakes that are not larger
add_snowflake(acc, snowflakes, pos, size, speed_y) ==
    LET x == pos[1]
        y == pos[2]
        at == IF y = 0 THEN <<x - size \div 2, y - size>>
              ELSE IF x = 0 THEN <<x - size, y>>
              ELSE IF x = AccWidth(acc) - 1 THEN <<x + 1, y>>
              ELSE <<x, y>>
        new == [size |-> size, x |-> at[1], y |-> at[2], speed_y |-> speed_y]
        k == Cardinality({ i \in 1..Len(snowflakes) :
                             snowflakes[i].size <= size })
    IN  SubSeq(snowflakes, 1, k) \o <<new>>
            \o SubSeq(snowflakes, k + 1, Len(snowflakes))

\* The loop of update(): after[k] is the state once the first k snowflakes
\* were examined.  fates is not a value of the code: for every snowflake
\* examined it holds the snowflake after the integration, the value of
\* layers when it was examined, whether it was appended to
\* snowflakes_trimmed, whether place_in was called with it, and the number
\* of calls of accumulate() made with it.  An exception ends the loop.
fall(acc, snowflakes, wind_speed) ==
    LET after[k \in 0..Len(snowflakes)] ==
            IF k = 0
            THEN [acc |-> acc, exc |-> "none", trimmed |-> <<>>,
                  placed |-> <<>>, fates |-> <<>>]
            ELSE LET st == after[k - 1]
                     sf == [snowflakes[k] EXCEPT
                               !.y = @ + snowflakes[k].speed_y,
                               !.x = @ + wind_speed]
                     fate == [snowflake |-> sf, layers |-> st.acc.layers,
                              kept |-> FALSE, placed |-> FALSE,
                              handed |-> 0]
                 IN  IF st.exc # "none" THEN st
                     ELSE IF in_frame(st.acc, sf)
                     THEN [st EXCEPT
                              !.trimmed = Append(@, sf),
                              !.placed = Append(@, <<sf.size, sf.x, sf.y>>),
                              !.fates = Append(@, [fate EXCEPT
                                                      !.kept = TRUE,
                                                      !.placed = TRUE])]
                     ELSE IF below_frame(st.acc, sf)
                     THEN LET handed(r) ==
                                  [st EXCEPT
                                      !.acc = r.acc,
                                      !.exc = r.out.exc,
                                      !.fates = Append(@, [fate EXCEPT
                                                              !.handed = 1])]
                          IN  handed(accumulate_result(
                                  st.acc,
                                  [size |-> sf.size, x2 |-> 2 * sf.x,
                                   color |->
                                       CHOOSE c \in ColorInputs : TRUE]))
                     ELSE [st EXCEPT !.fates = Append(@, fate)]
    IN  after[Len(snowflakes)]

\* self.accumulator.accumulation: the rows of the pile, top row first
accumulation(acc) ==
    [r \in 1..acc.layers |-> acc.matrix[AccHeight(acc) - acc.layers + r]]

SnowCall(op, fates, exc) == [op |-> op, fates |-> fates, exc |-> exc]

AnimSnowflake_init(wind_speed) ==
    [snowflakes |-> <<>>, matrix |-> [placed |-> <<>>, pile |-> <<>>],
     wind_speed |-> wind_speed]

SnowIdle ==
    /\ snow = AnimSnowflake_init(0)
    /\ snowLast = SnowCall("init", <<>>, "none")

\* ------------------------------------------------------------------- Init
\* the player and a GIF of n frames, just constructed
PlayerBuilt(n, mode) ==
    /\ now = StartTime
    /\ player = NewPlayer
    /\ gifFramer = NewGif(n, mode)
    /\ framingGif = NewFramingGif(n, mode)
    /\ last = Quiet("init", "STOPPED", 0, "none")
    /\ gifLast = FramerInit
    /\ framingLast = FramerInit

PlayerIdle == PlayerBuilt(1, "LOOP")

Init ==
    /\ \E n \in 1..MaxFrames, mode \in LoopModes : PlayerBuilt(n, mode)
    /\ LedIdle
    /\ AccIdle
    /\ StreamIdle /\ ColorIdle /\ SnowIdle

LedInit ==
    /\ PlayerIdle
    /\ \E pn \in Panels, contrast \in ContrastInputs, gamma \in GammaInputs :
          /\ panel = pn
          /\ ledmat = LEDMatrix_init(pn, DefaultBrightness, contrast, gamma)
    /\ ledLast = LedBuilt
    /\ AccIdle
    /\ StreamIdle /\ ColorIdle /\ SnowIdle

AccInit ==
    /\ PlayerIdle
    /\ LedIdle
    /\ \E height \in AccHeights, width \in 1..MaxAccWidth,
          bin_level_scaler \in BinLevelScalers :
          accumulator = Accumulator_init(height, width, bin_level_scaler)
    /\ accLast = AccBuilt
    /\ StreamIdle /\ ColorIdle /\ SnowIdle

\* d ticks pass
Elapse(d, p, g) ==
    /\ now' = AdvanceTo(d)
    /\ player' = [p EXCEPT !.last_update_time = Rebase(@, Shift(d))]
    /\ gifFramer' = [g EXCEPT !.last_update_time = Rebase(@, Shift(d))]

Tick ==
    /\ Elapse(1, player, gifFramer)
    /\ last' = Quiet("tick", player.playing_state, 0, "none")
    /\ UNCHANGED <<gifLast, framingGif, framingLast>>
    /\ UNCHANGED <<panel, ledmat, ledLast, accumulator, accLast, stream,
                   worker, render, handoff, streamLast, colorField, snow,
                   snowLast>>

\* gifLast after a call on the player that used the framer f
GifSeen(f, out, t) ==
    IF f # "GifFramer" THEN gifLast
    ELSE IF out.framer_reset THEN FramerWasReset
    ELSE IF out.framer_update # "not called"
    THEN FramerUpdated(gifLast, GifFramer_update_result(gifFramer, t), 0)
    ELSE gifLast

set_framer ==
    \E f \in FramerKinds :
        /\ player' = set_framer_result(player, f)
        /\ last' = Quiet("set_framer", player.playing_state,
                         IF f = "None" THEN 0 ELSE FramerFramerate(f), "none")
        /\ UNCHANGED <<now, gifFramer, gifLast, framingGif, framingLast>>
        /\ UNCHANGED <<panel, ledmat, ledLast, accumulator, accLast, stream,
                       worker, render, handoff, streamLast, colorField, snow,
                       snowLast>>

set_framerate ==
    \E r \in FramerateInputs :
        /\ player' = framerate_setter(player, r)
        /\ last' = Quiet("framerate", player.playing_state, r, "none")
        /\ UNCHANGED <<now, gifFramer, gifLast, framingGif, framingLast>>
        /\ UNCHANGED <<panel, ledmat, ledLast, accumulator, accLast, stream,
                       worker, render, handoff, streamLast, colorField, snow,
                       snowLast>>

play ==
    LET r == play_result(player) IN
    /\ player' = r.player
    /\ last' = Quiet("play", player.playing_state, 0, r.exc)
    /\ UNCHANGED <<now, gifFramer, gifLast, framingGif, framingLast>>
    /\ UNCHANGED <<panel, ledmat, ledLast, accumulator, accLast, stream,
                   worker, render, handoff, streamLast, colorField, snow,
                   snowLast>>

stop ==
    LET r == stop_result(player, gifFramer, now)
        out == Outcome("stop", player.playing_state, 0, r.exc, <<>>, <<>>,
                       "not called", r.reset)
    IN  /\ player' = r.player
        /\ gifFramer' = r.gif
        /\ last' = out
        /\ gifLast' = GifSeen(player.framer, out, now)
        /\ UNCHANGED <<now, framingGif, framingLast>>
        /\ UNCHANGED <<panel, ledmat, ledLast, accumulator, accLast, stream,
                       worker, render, handoff, streamLast, colorField, snow,
                       snowLast>>

pause ==
    /\ player' = pause_result(player)
    /\ last' = Quiet("pause", player.playing_state, 0, "none")
    /\ UNCHANGED <<now, gifFramer, gifLast, framingGif, framingLast>>
    /\ UNCHANGED <<panel, ledmat, ledLast, accumulator, accLast, stream,
                   worker, render, handoff, streamLast, colorField, snow,
                   snowLast>>

update ==
    \E d \in 0..MaxSendTicks :
        LET r == update_result(player, gifFramer, now, d) IN
        /\ Elapse(r.d, r.player, r.gif)
        /\ last' = r.out
        /\ gifLast' = GifSeen(player.framer, r.out, now)
        /\ UNCHANGED <<framingGif, framingLast>>
        /\ UNCHANGED <<panel, ledmat, ledLast, accumulator, accLast, stream,
                       worker, render, handoff, streamLast, colorField, snow,
                       snowLast>>

\* update() while the serial port is failing
update_write_fails ==
    LET r == update_write_fails_result(player, gifFramer, now) IN
    /\ r.reached
    /\ Elapse(0, r.player, r.gif)
    /\ last' = r.out
    /\ gifLast' = GifSeen(player.framer, r.out, now)
    /\ UNCHANGED <<framingGif, framingLast>>
    /\ UNCHANGED <<panel, ledmat, ledLast, accumulator, accLast, stream,
                   worker, render, handoff, streamLast, colorField, snow,
                   snowLast>>

\* ---------------------------------- the framers called by their owner
GifFramer_update ==
    LET r == GifFramer_update_result(gifFramer, now) IN
    /\ gifFramer' = r.gif
    /\ gifLast' = FramerUpdated(gifLast, r, 0)
    /\ UNCHANGED <<now, player, last, framingGif, framingLast>>
    /\ UNCHANGED <<panel, ledmat, ledLast, accumulator, accLast, stream,
                   worker, render, handoff, streamLast, colorField, snow,
                   snowLast>>

GifFramer_reset ==
    /\ gifFramer' = GifFramer_reset_result(gifFramer, now)
    /\ gifLast' = FramerWasReset
    /\ UNCHANGED <<now, player, last, framingGif, framingLast>>
    /\ UNCHANGED <<panel, ledmat, ledLast, accumulator, accLast, stream,
                   worker, render, handoff, streamLast, colorField, snow,
                   snowLast>>

FramingGifFramer_update ==
    LET r == FramingGifFramer_update_result(framingGif) IN
    /\ framingGif' = r.gif
    /\ framingLast' = FramerUpdated(framingLast, r, r.dt)
    /\ UNCHANGED <<now, player, gifFramer, last, gifLast>>
    /\ UNCHANGED <<panel, ledmat, ledLast, accumulator, accLast, stream,
                   worker, render, handoff, streamLast, colorField, snow,
                   snowLast>>

FramingGifFramer_reset ==
    /\ framingGif' = FramingGifFramer_reset_result(framingGif)
    /\ framingLast' = FramerWasReset
    /\ UNCHANGED <<now, player, gifFramer, last, gifLast>>
    /\ UNCHANGED <<panel, ledmat, ledLast, accumulator, accLast, stream,
                   worker, render, handoff, streamLast, colorField, snow,
                   snowLast>>

Next ==
    \/ Tick
    \/ set_framer
    \/ set_framerate
    \/ play
    \/ stop
    \/ pause
    \/ update

Spec == Init /\ [][Next]_vars

\* The two GIF framers driven directly by a caller of update() and reset().
GifNext ==
    \/ Tick
    \/ GifFramer_update
    \/ GifFramer_reset
    \/ FramingGifFramer_update
    \/ FramingGifFramer_reset

GifSpec == Init /\ [][GifNext]_vars

\* The caller keeps calling update() and time keeps passing.
LiveGifSpec ==
    /\ GifSpec
    /\ WF_vars(Tick)
    /\ WF_vars(GifFramer_update)
    /\ WF_vars(FramingGifFramer_update)

\* The player driven while writes on the serial port can fail.
FailNext ==
    \/ Next
    \/ update_write_fails

FailSpec == Init /\ [][FailNext]_vars

\* ------------------------------------------------------ LED driver calls
send_matrix ==
    \E frame \in FrameInputs, cast \in Uint8Casts :
        LET r == send_matrix_result(ledmat, panel, frame, cast) IN
        /\ ledmat' = r.ledmat
        /\ ledLast' = LedCall("send_matrix", <<>>, r.wire, cast, frame)
        /\ UNCHANGED <<now, player, gifFramer, last, gifLast, framingGif,
                       framingLast, panel, accumulator, accLast, stream,
                       worker, render, handoff, streamLast, colorField, snow,
                       snowLast>>

refresh ==
    \E cast \in Uint8Casts :
        LET r == refresh_result(ledmat, cast) IN
        /\ ledmat' = r.ledmat
        /\ ledLast' = LedCall("refresh", <<>>, r.wire, cast,
                              ledLast.submitted)
        /\ UNCHANGED <<now, player, gifFramer, last, gifLast, framingGif,
                       framingLast, panel, accumulator, accLast, stream,
                       worker, render, handoff, streamLast, colorField, snow,
                       snowLast>>

set_brightness ==
    \E value \in BrightnessInputs :
        /\ ledmat' = brightness_setter(ledmat, value)
        /\ ledLast' = LedCall("brightness", value, <<>>, "none",
                              ledLast.submitted)
        /\ UNCHANGED <<now, player, gifFramer, last, gifLast, framingGif,
                       framingLast, panel, accumulator, accLast, stream,
                       worker, render, handoff, streamLast, colorField, snow,
                       snowLast>>

set_contrast ==
    \E value \in ContrastInputs :
        /\ ledmat' = contrast_setter(ledmat, value)
        /\ ledLast' = LedCall("contrast", value, <<>>, "none",
                              ledLast.submitted)
        /\ UNCHANGED <<now, player, gifFramer, last, gifLast, framingGif,
                       framingLast, panel, accumulator, accLast, stream,
                       worker, render, handoff, streamLast, colorField, snow,
                       snowLast>>

set_gamma ==
    \E value \in GammaInputs :
        /\ ledmat' = gamma_setter(ledmat, value)
        /\ ledLast' = LedCall("gamma", <<value>>, <<>>, "none",
                              ledLast.submitted)
        /\ UNCHANGED <<now, player, gifFramer, last, gifLast, framingGif,
                       framingLast, panel, accumulator, accLast, stream,
                       worker, render, handoff, streamLast, colorField, snow,
                       snowLast>>

LedNext ==
    \/ send_matrix
    \/ refresh
    \/ set_brightness
    \/ set_contrast
    \/ set_gamma

LedSpec == LedInit /\ [][LedNext]_vars

\* --------------------------------------------------- stream framer steps

\* a statement of update() was executed: it fell inside a new_data() if
\* the worker is between two of the three assignments
Rendered(h) == [h EXCEPT !.clean = @ /\ worker.pc \notin {"time", "frames"}]

\* update() is left, by return (exc = "none") or by an exception
Leave(ret, exc) ==
    /\ render' = [render EXCEPT !.pc = "idle", !.torn = FALSE]
    /\ handoff' = Rendered(handoff)
    /\ streamLast' = StreamCall("update", ret, exc, render.torn,
                                 handoff'.clean, Len(stream.frames),
                                 stream.frame_idx)

\* self.frames[self.frame_idx]: <<item>>, or <<>> for IndexError
Indexed ==
    LET i == PyIndex(stream.frame_idx, Len(stream.frames)) IN
    IF i = -1 THEN <<>> ELSE <<stream.frames[i + 1]>>

\* run(): self.alive = True
run_start ==
    /\ worker.pc = "start"
    /\ worker' = [worker EXCEPT !.alive = TRUE, !.pc = "while"]
    /\ UNCHANGED <<now, player, gifFramer, last, gifLast, framingGif,
                   framingLast, panel, ledmat, ledLast, accumulator, accLast,
                   stream, render, handoff, streamLast, colorField, snow,
                   snowLast>>

\* run(): while self.alive
run_while ==
    /\ worker.pc = "while"
    /\ worker' = [worker EXCEPT !.pc = IF worker.alive THEN "get" ELSE "done"]
    /\ UNCHANGED <<now, player, gifFramer, last, gifLast, framingGif,
                   framingLast, panel, ledmat, ledLast, accumulator, accLast,
                   stream, render, handoff, streamLast, colorField, snow,
                   snowLast>>

\* run(): the request returns; with status 200 and a payload that decrypts
\* the callback is entered, otherwise (another status, an exception that
\* is printed) the worker goes on to sleep
run_get ==
    /\ worker.pc = "get"
    /\ \/ /\ worker' = [worker EXCEPT !.pc = "sleep"]
          /\ UNCHANGED handoff
       \/ /\ handoff.batches < MaxBatches
          /\ \E kind \in PayloadKinds :
                worker' = [worker EXCEPT
                    !.pc = "idx",
                    !.frames = <<StreamItem(kind, handoff.batches + 1, 0)>>]
          /\ handoff' = [handoff EXCEPT !.batches = @ + 1]
    /\ UNCHANGED <<now, player, gifFramer, last, gifLast, framingGif,
                   framingLast, panel, ledmat, ledLast, accumulator, accLast,
                   stream, render, streamLast, colorField, snow, snowLast>>

\* new_data(): self.frame_idx = -1
new_data_idx ==
    /\ worker.pc = "idx"
    /\ stream' = [stream EXCEPT !.frame_idx = -1]
    /\ handoff' = [handoff EXCEPT !.idx = handoff.batches,
                                  !.clean = render.pc = "idle"]
    /\ worker' = [worker EXCEPT !.pc = "time"]
    /\ UNCHANGED <<now, player, gifFramer, last, gifLast, framingGif,
                   framingLast, panel, ledmat, ledLast, accumulator, accLast,
                   render, streamLast, colorField, snow, snowLast>>

\* new_data(): self.frame_time = 0
new_data_time ==
    /\ worker.pc = "time"
    /\ stream' = [stream EXCEPT !.frame_time = 0]
    /\ handoff' = [handoff EXCEPT !.time = handoff.batches]
    /\ worker' = [worker EXCEPT !.pc = "frames"]
    /\ UNCHANGED <<now, player, gifFramer, last, gifLast, framingGif,
                   framingLast, panel, ledmat, ledLast, accumulator, accLast,
                   render, streamLast, colorField, snow, snowLast>>

\* new_data(): self.frames = frames
new_data_frames ==
    /\ worker.pc = "frames"
    /\ stream' = [stream EXCEPT !.frames = worker.frames]
    /\ handoff' = [handoff EXCEPT !.frames = handoff.batches]
    /\ worker' = [worker EXCEPT !.pc = "sleep", !.frames = <<>>]
    /\ UNCHANGED <<now, player, gifFramer, last, gifLast, framingGif,
                   framingLast, panel, ledmat, ledLast, accumulator, accLast,
                   render, streamLast, colorField, snow, snowLast>>

\* run(): time.sleep(0.01)
run_sleep ==
    /\ worker.pc = "sleep"
    /\ worker' = [worker EXCEPT !.pc = "while"]
    /\ UNCHANGED <<now, player, gifFramer, last, gifLast, framingGif,
                   framingLast, panel, ledmat, ledLast, accumulator, accLast,
                   stream, render, handoff, streamLast, colorField, snow,
                   snowLast>>

WorkerNext ==
    \/ run_start
    \/ run_while
    \/ run_get
    \/ new_data_idx
    \/ new_data_time
    \/ new_data_frames
    \/ run_sleep

\* new_data(f0, ..., fn-1) called by the rendering thread itself
new_data ==
    /\ render.pc = "idle"
    /\ worker.pc \notin {"idx", "time", "frames"}
    /\ handoff.batches < MaxBatches
    /\ \E n \in 1..MaxFrames :
          stream' = [stream EXCEPT
                        !.frame_idx = -1, !.frame_time = 0,
                        !.frames =
                            [k \in 1..n |->
                                StreamItem("frame", handoff.batches + 1,
                                           k - 1)]]
    /\ handoff' = [idx |-> handoff.batches + 1, time |-> handoff.batches + 1,
                   frames |-> handoff.batches + 1, clean |-> TRUE,
                   batches |-> handoff.batches + 1]
    /\ streamLast' = StreamCall("new_data", <<>>, "none", FALSE, TRUE,
                                 Len(stream'.frames), -1)
    /\ UNCHANGED <<now, player, gifFramer, last, gifLast, framingGif,
                   framingLast, panel, ledmat, ledLast, accumulator, accLast,
                   worker, render, colorField, snow, snowLast>>

\* update(): the test of the if statement
update_test ==
    /\ render.pc = "idle"
    /\ LET expired == render.time > stream.frame_time
           cond == expired /\ stream.frame_idx < Len(stream.frames)
       IN  render' = [render EXCEPT
               !.pc = IF cond THEN "inc" ELSE "return",
               !.torn = expired /\ ~(handoff.idx = handoff.frames
                                      /\ handoff.time = handoff.frames)]
    /\ handoff' = Rendered(handoff)
    /\ UNCHANGED <<now, player, gifFramer, last, gifLast, framingGif,
                   framingLast, panel, ledmat, ledLast, accumulator, accLast,
                   stream, worker, streamLast, colorField, snow, snowLast>>

\* update(): self.frame_idx += 1
update_inc ==
    /\ render.pc = "inc"
    /\ stream' = [stream EXCEPT !.frame_idx = @ + 1]
    /\ render' = [render EXCEPT !.pc = "matrix"]
    /\ handoff' = Rendered(handoff)
    /\ UNCHANGED <<now, player, gifFramer, last, gifLast, framingGif,
                   framingLast, panel, ledmat, ledLast, accumulator, accLast,
                   worker, streamLast, colorField, snow, snowLast>>

\* update(): self.matrix = self.frames[self.frame_idx]["matrix"]
update_matrix ==
    /\ render.pc = "matrix"
    /\ IF Indexed = <<>>
       THEN Leave(<<>>, "IndexError") /\ UNCHANGED stream
       ELSE IF Indexed[1].kind = "list"
       THEN Leave(<<>>, "TypeError") /\ UNCHANGED stream
       ELSE /\ stream' = [stream EXCEPT !.matrix = Indexed]
            /\ render' = [render EXCEPT
                              !.pc = "time",
                              !.torn = @ \/ handoff.idx # handoff.frames]
            /\ handoff' = Rendered(handoff)
            /\ UNCHANGED streamLast
    /\ UNCHANGED <<now, player, gifFramer, last, gifLast, framingGif,
                   framingLast, panel, ledmat, ledLast, accumulator, accLast,
                   worker, colorField, snow, snowLast>>

\* update(): self.frame_time = time.time() + self.frames[...]["duration_s"]
update_time ==
    /\ render.pc = "time"
    /\ IF Indexed = <<>>
       THEN Leave(<<>>, "IndexError") /\ UNCHANGED stream
       ELSE IF Indexed[1].kind = "list"
       THEN Leave(<<>>, "TypeError") /\ UNCHANGED stream
       ELSE /\ stream' = [stream EXCEPT
                              !.frame_time =
                                  render.time + FrameDuration(Indexed[1].i)]
            /\ render' = [render EXCEPT
                              !.pc = "return",
                              !.torn = @ \/ handoff.idx # handoff.frames]
            /\ handoff' = Rendered(handoff)
            /\ UNCHANGED streamLast
    /\ UNCHANGED <<now, player, gifFramer, last, gifLast, framingGif,
                   framingLast, panel, ledmat, ledLast, accumulator, accLast,
                   worker, colorField, snow, snowLast>>

\* update(): return super().update(), the matrix last assigned
update_return ==
    /\ render.pc = "return"
    /\ Leave(stream.matrix, "none")
    /\ UNCHANGED <<now, player, gifFramer, last, gifLast, framingGif,
                   framingLast, panel, ledmat, ledLast, accumulator, accLast,
                   stream, worker, colorField, snow, snowLast>>

\* kill(): self.worker.alive = False
kill_flag ==
    /\ render.pc = "idle"
    /\ ~render.killed
    /\ worker' = [worker EXCEPT !.alive = FALSE]
    /\ render' = [render EXCEPT !.pc = "join"]
    /\ UNCHANGED <<now, player, gifFramer, last, gifLast, framingGif,
                   framingLast, panel, ledmat, ledLast, accumulator, accLast,
                   stream, handoff, streamLast, colorField, snow, snowLast>>

\* kill(): self.thread.join() returns once run() has returned
kill_join ==
    /\ render.pc = "join"
    /\ worker.pc = "done"
    /\ render' = [render EXCEPT !.pc = "idle", !.killed = TRUE]
    /\ streamLast' = StreamCall("kill", <<>>, "none", FALSE, handoff.clean,
                                 Len(stream.frames), stream.frame_idx)
    /\ UNCHANGED <<now, player, gifFramer, last, gifLast, framingGif,
                   framingLast, panel, ledmat, ledLast, accumulator, accLast,
                   stream, worker, handoff, colorField, snow, snowLast>>

\* time passes
StreamTick ==
    /\ render.time <= MaxFrames * MaxDuration
    /\ render' = [render EXCEPT !.time = @ + 1]
    /\ UNCHANGED <<now, player, gifFramer, last, gifLast, framingGif,
                   framingLast, panel, ledmat, ledLast, accumulator, accLast,
                   stream, worker, handoff, streamLast, colorField, snow,
                   snowLast>>

StreamNext ==
    \/ WorkerNext
    \/ new_data
    \/ update_test
    \/ update_inc
    \/ update_matrix
    \/ update_time
    \/ update_return
    \/ kill_flag
    \/ kill_join
    \/ StreamTick

StreamInit ==
    /\ PlayerIdle /\ LedIdle /\ AccIdle
    /\ StreamIdle /\ ColorIdle /\ SnowIdle

StreamSpec == StreamInit /\ [][StreamNext]_vars

\* Every thread that can take a step takes one: the request returns, the
\* sleep ends, and join() returns once the worker thread has ended.
LiveStreamSpec ==
    /\ StreamSpec
    /\ WF_vars(WorkerNext)
    /\ WF_vars(kill_join)

\* ----------------------------------------------------- color field calls
set_color_map ==
    \E value \in ColorMapInputs :
        /\ colorField' = color_map_setter(colorField, value)
        /\ UNCHANGED <<now, player, gifFramer, last, gifLast, framingGif,
                       framingLast, panel, ledmat, ledLast, accumulator,
                       accLast, stream, worker, render, handoff, streamLast,
                       snow, snowLast>>

\* update() with a field function that returns value for the pixel
ColorField_update ==
    \E value \in ValueInputs :
        /\ colorField' =
              ColorCall(colorField.color_map, "update", value,
                        value_to_color(colorField.color_map, value), "none")
        /\ UNCHANGED <<now, player, gifFramer, last, gifLast, framingGif,
                       framingLast, panel, ledmat, ledLast, accumulator,
                       accLast, stream, worker, render, handoff, streamLast,
                       snow, snowLast>>

ColorNext ==
    \/ set_color_map
    \/ ColorField_update

ColorInit ==
    /\ PlayerIdle /\ LedIdle /\ AccIdle
    /\ StreamIdle /\ ColorIdle /\ SnowIdle

ColorSpec == ColorInit /\ [][ColorNext]_vars

\* --------------------------------------------------- snow animation calls
\* update(): at most one new snowflake, the new wind, the loop, the pile
AnimSnowflake_update ==
    \E wind_speed \in WindInputs,
       new \in {<<>>} \cup
               IF Len(snow.snowflakes) >= MaxFlakes THEN {}
               ELSE new_snowflake_positions(accumulator, snow.wind_speed)
                       \X SnowflakeSizes \X SpeedInputs :
        LET snowflakes ==
                IF new = <<>> THEN snow.snowflakes
                ELSE add_snowflake(accumulator, snow.snowflakes, new[1],
                                   new[2], new[3])
            loop(r) ==
                /\ accumulator' = r.acc
                /\ snow' =
                      IF r.exc # "none"
                      THEN [snowflakes |-> snowflakes,
                            matrix |-> [placed |-> r.placed, pile |-> <<>>],
                            wind_speed |-> wind_speed]
                      ELSE [snowflakes |-> r.trimmed,
                            matrix |-> [placed |-> r.placed,
                                        pile |-> accumulation(r.acc)],
                            wind_speed |-> wind_speed]
                /\ snowLast' = SnowCall("update", r.fates, r.exc)
        IN  /\ loop(fall(accumulator, snowflakes, wind_speed))
            /\ UNCHANGED <<now, player, gifFramer, last, gifLast, framingGif,
                           framingLast, panel, ledmat, ledLast, accLast,
                           stream, worker, render, handoff, streamLast,
                           colorField>>

AnimSnowflake_reset ==
    /\ snow' = [snow EXCEPT !.snowflakes = <<>>,
                            !.matrix = [placed |-> <<>>, pile |-> <<>>]]
    /\ snowLast' = SnowCall("reset", <<>>, "none")
    /\ UNCHANGED <<now, player, gifFramer, last, gifLast, framingGif,
                   framingLast, panel, ledmat, ledLast, accumulator, accLast,
                   stream, worker, render, handoff, streamLast, colorField>>

SnowNext ==
    \/ AnimSnowflake_update
    \/ AnimSnowflake_reset

SnowInit ==
    /\ PlayerIdle /\ LedIdle /\ StreamIdle /\ ColorIdle
    /\ \E frame \in SnowFrames :
          accumulator = Accumulator_init(frame[1], frame[2], 1)
    /\ accLast = AccBuilt
    /\ \E wind_speed \in WindInputs : snow = AnimSnowflake_init(wind_speed)
    /\ snowLast = SnowCall("init", <<>>, "none")

SnowSpec == SnowInit /\ [][SnowNext]_vars

\* ------------------------------------------------------ accumulator calls
accumulate ==
    \E snowflake \in Snowflakes(AccWidth(accumulator)) :
        LET r == accumulate_result(accumulator, snowflake) IN
        /\ accumulator' = r.acc
        /\ accLast' = r.out
        /\ UNCHANGED <<now, player, gifFramer, last, gifLast, framingGif,
                       framingLast, panel, ledmat, ledLast, stream, worker,
                       render, handoff, streamLast, colorField, snow,
                       snowLast>>

AccSpec == AccInit /\ [][accumulate]_vars

\* ================================================================ claims

\* C1: update() is a no-op unless the player is Playing: called while
\* STOPPED or PAUSED it does not call the framer's update(), sends nothing
\* to the LED matrix and leaves playing_state and last_update_time as they
\* were.
C1_TickNoOpUnlessPlaying ==
    [][(last'.op = "update" /\ player.playing_state # "PLAYING")
         => /\ last'.framer_update = "not called"
            /\ last'.sent = <<>>
            /\ player'.playing_state = player.playing_state
            /\ player'.last_update_time = player.last_update_time]_vars

\* C2: pause() called while Playing moves the player to PAUSED, and no
\* update() produces or sends a frame while the player is PAUSED.
C2_PauseHolds ==
    [][/\ (last'.op = "pause" /\ player.playing_state = "PLAYING")
            => player'.playing_state = "PAUSED"
       /\ (last'.op = "update" /\ player.playing_state = "PAUSED")
            => (last'.sent = <<>> /\ last'.framer_update = "not called")]_vars

\* C3: with an active source, stop() from any player state leaves the
\* player STOPPED with last_update_time = 0 and has called reset() on the
\* framer.
C3_StopResets ==
    (last.op = "stop" /\ player.framer # "None")
      => /\ last.exc = "none"
         /\ player.playing_state = "STOPPED"
         /\ player.last_update_time = 0
         /\ last.framer_reset
         /\ player.framer = "GifFramer"
              => /\ gifFramer.current_frame = 0
                 /\ gifFramer.play_forward
                 /\ gifLast.op = "reset"

C3_StoppedWhilePlaying ==
    /\ last.op = "stop"
    /\ last.was = "PLAYING"
    /\ player.framer = "GifFramer"
    /\ gifFramer.num_frames > 1

\* C4: play() on a player with no framer raises ValueError and changes
\* nothing: playing_state, last_update_time, framerate and frame_interval
\* are as before the call and nothing is sent.
C4_PlayWithoutFramerFails ==
    [][(last'.op = "play" /\ player.framer = "None")
         => /\ last'.exc = "ValueError"
            /\ last'.sent = <<>>
            /\ player'.playing_state = player.playing_state
            /\ player'.last_update_time = player.last_update_time
            /\ player'.framerate = player.framerate
            /\ player'.frame_interval = player.frame_interval
            /\ player' = player]_vars

C4_PlayRaised ==
    /\ last.op = "play"
    /\ last.exc = "ValueError"
    /\ player.framer = "None"
    /\ player.playing_state = "STOPPED"

\* C5: when the player is Playing and the framer's update() returns None,
\* that same update() of the player sends no frame, leaves the player
\* STOPPED and has called the framer's reset().
C5_TerminalStopsAndResets ==
    (last.op = "update" /\ last.was = "PLAYING" /\ last.framer_update = "None")
      => /\ last.sent = <<>>
         /\ player.playing_state = "STOPPED"
         /\ last.framer_reset

\* C6: a static source (framerate 0) sends exactly one frame per play():
\* the update() that follows play() sends the frame and leaves the player
\* STOPPED, and an update() of the stopped player sends nothing.
C6_StaticSendsOnce ==
    (last.op = "update" /\ player.framer = "StaticFramer" /\ player.framerate = 0)
      => IF last.was = "PLAYING"
         THEN last.sent = <<Frame("static", 0)>> /\ player.playing_state = "STOPPED"
         ELSE last.sent = <<>>

\* What a ONCE-mode GIF framer of n frames may return from update(): no
\* exception; a frame is frame 0 if the call is the first since construction
\* or reset, else the frame of the call before or the one after it; None
\* comes only after frame n-1 (or after None).
OnceInOrder(n, h) ==
    h.op = "update"
      => /\ h.exc = "none"
         /\ h.ret # <<>>
              => IF h.first THEN h.ret = <<0>>
                 ELSE /\ h.prev # <<>>
                      /\ h.ret[1] \in {h.prev[1], h.prev[1] + 1}
         /\ h.ret = <<>>
              => /\ ~h.first
                 /\ h.prev \in {<<n - 1>>, <<>>}

\* C7: a GifFramer in mode ONCE, from its initial or reset state, produces
\* frames 0, 1, ..., n-1 in that order, frame 0 first and none skipped, then
\* signals completion with None, and never indexes outside 0..n-1.
C7_OnceInOrder ==
    /\ gifFramer.loop_mode = "ONCE" => OnceInOrder(gifFramer.num_frames, gifLast)
    /\ framingGif.loop_mode = "ONCE" => OnceInOrder(framingGif.num_frames, framingLast)

\* What a LOOP-mode GIF framer of n frames may return from update(): always
\* a frame of the GIF, and after frame n-1 the next new frame is frame 0.
LoopWraps(n, h) ==
    h.op = "update"
      => /\ h.exc = "none"
         /\ h.ret # <<>>
         /\ h.ret[1] \in 0..(n - 1)
         /\ (~h.first /\ h.prev = <<n - 1>>) => h.ret \in {<<0>>, h.prev}

\* Frame i of a LOOP-mode framer keeps being produced, as long as the
\* framer is not reset again and again.
ShownAgain(g, h, i) ==
    (g.loop_mode = "LOOP" /\ i < g.num_frames)
      => (h.op = "reset" \/ (h.op = "update" /\ h.ret = <<i>>))

\* C8: a GifFramer in mode LOOP never signals completion: after frame n-1
\* the next frame is frame 0, and every frame 0..n-1 is produced infinitely
\* often.
C8_LoopForever ==
    /\ [](gifFramer.loop_mode = "LOOP" => LoopWraps(gifFramer.num_frames, gifLast))
    /\ [](framingGif.loop_mode = "LOOP"
            => /\ LoopWraps(framingGif.num_frames, framingLast)
               /\ (framingLast.op = "update" /\ ~framingLast.first
                     /\ framingLast.prev = <<framingGif.num_frames - 1>>)
                    => framingLast.ret = <<0>>)
    /\ \A i \in 0..(MaxFrames - 1) :
          /\ []<>ShownAgain(gifFramer, gifLast, i)
          /\ []<>ShownAgain(framingGif, framingLast, i)

C8_WrappedAround ==
    /\ gifFramer.loop_mode = "LOOP"
    /\ gifFramer.num_frames > 1
    /\ gifLast.op = "update"
    /\ gifLast.prev = <<gifFramer.num_frames - 1>>
    /\ gifLast.ret = <<0>>
    /\ framingLast.op = "update"
    /\ framingLast.prev = <<framingGif.num_frames - 1>>
    /\ framingLast.ret = <<0>>

\* C9: update() returns a negative value exactly when the player is not
\* Playing on return.
C9_NegativeIffNotPlaying ==
    (last.op = "update" /\ last.exc = "none" /\ last.ret # <<>>)
      => (last.ret[1] < 0 <=> player.playing_state # "PLAYING")

\* C10: after set_framer(source) for a source reporting framerate r, and
\* after any assignment of r to player.framerate, framerate = min(r, 60),
\* frame_interval = 1/min(r, 60) >= 1/60 when r > 0, and frame_interval = -1
\* when r = 0.
C10_RateClamped ==
    /\ player.framerate <= MAX_FPS
    /\ (\/ last.op = "framerate"
        \/ last.op = "set_framer" /\ player.framer # "None")
         => /\ player.framerate = (IF last.arg > MAX_FPS THEN MAX_FPS ELSE last.arg)
            /\ last.arg > 0
                 => /\ player.frame_interval[1] = 1
                    /\ player.frame_interval[2] = player.framerate
                    /\ player.frame_interval[1] * MAX_FPS >= player.frame_interval[2]
            /\ last.arg = 0 => player.frame_interval = <<-1, 1>>

C10_ClampedAbove ==
    /\ last.op = "framerate"
    /\ last.arg > MAX_FPS
    /\ player.framerate = MAX_FPS

\* ------------------------------------------------------------ LED claims
Sent == ledLast.op \in {"send_matrix", "refresh"}

C12_SerpentineOrder ==
    LET m == ledmat.idx_map
        n == Len(m) \div 3
    IN  /\ Len(m) = 3 * n
        /\ \A k \in 1..n :
              /\ m[3 * k - 2] = <<m[3 * k][1], m[3 * k][2], 1>>
              /\ m[3 * k - 1] = <<m[3 * k][1], m[3 * k][2], 0>>
              /\ m[3 * k][3] = 2
        /\ \A k \in 1..(n - 1) :
              LET p == m[3 * k]
                  q == m[3 * k + 3]
              IN  \/ p[2] < q[2]
                  \/ /\ p[2] = q[2]
                     /\ IF p[2] % 2 = 0 THEN q[1] < p[1] ELSE q[1] > p[1]

\* C12 witness: a map over an even and an odd column of two lit pixels each
C12_TwoFullColumns ==
    /\ panel.WIDTH > 1
    /\ panel.HEIGHT > 1
    /\ panel.BLANK_PIXELS = {}
    /\ Len(ledmat.idx_map) >= 12

\* C13: send_matrix(frame) and refresh() each write one '*' marker and then
\* the 3 x NUM_LEDS corrected bytes in index-map order, and nothing else.
C13_MarkerThenCorrectedBytes ==
    Sent =>
        /\ Len(ledLast.wire) = 2
        /\ ledLast.wire[1] = <<SOF_FLAG>>
        /\ Len(ledLast.wire[2]) = 3 * NUM_LEDS(panel)
        /\ \A i \in 1..(3 * NUM_LEDS(panel)) :
              ledLast.wire[2][i] =
                  correct_value(ledmat,
                      IF ledLast.op = "send_matrix"
                      THEN FrameValue(ledLast.submitted, panel,
                                      ledmat.idx_map[i])
                      ELSE ledmat.pixel_data[i],
                      ledLast.cast)

\* C13 witness: a frame of pairwise different values was sent to a panel of
\* several pixels.
C13_RampSent ==
    /\ ledLast.op = "send_matrix"
    /\ ledLast.submitted = "ramp"
    /\ NUM_LEDS(panel) > 1

\* C14: the driver keeps the last mapped buffer as submitted, before
\* correction; refresh() transmits what send_matrix of the last submitted
\* frame would transmit under the current parameters, and the stored
\* buffer is never the corrected data.
C14_RefreshResendsRaw ==
    /\ ledmat.pixel_data =
          IF ledLast.submitted = "none"
          THEN [i \in 1..(3 * NUM_LEDS(panel)) |-> 0]
          ELSE map_matrix(ledmat, panel, ledLast.submitted)
    /\ (ledLast.op = "refresh" /\ ledLast.submitted # "none") =>
          ledLast.wire =
              send_matrix_result(ledmat, panel, ledLast.submitted,
                                 ledLast.cast).wire

\* C14 witness: a refresh after a frame was submitted and the brightness
\* was changed.
C14_RefreshedBrighter ==
    /\ ledLast.op = "refresh"
    /\ ledLast.submitted = "white"
    /\ ledmat._brightness = <<1, 1>>
    /\ NUM_LEDS(panel) > 0

\* C15: brightness, contrast and gamma are live: a value assigned to
\* led_matrix.brightness, .contrast or .gamma is from then on the value of
\* the parameter the correction of the next send or refresh reads
\* (_brightness, _contrast, _gamma), and assigning gamma regenerates
\* gamma_lut.
C15_ParametersLive ==
    /\ ledLast.op = "brightness" => ledmat._brightness = ledLast.value
    /\ ledLast.op = "contrast" => ledmat._contrast = ledLast.value
    /\ ledLast.op = "gamma" =>
          /\ ledmat._gamma = ledLast.value[1]
          /\ ledmat.gamma_lut = gen_gamma_lut(ledLast.value[1])

\* C16: with contrast 1 and gamma 1, under every brightness b >= 0 a raw 0
\* is transmitted as 0 and a raw 255 as round(255 b) clipped to [0, 255]:
\* 255 for b > 1, never a wrapped value.
C16_BrightnessClips ==
    (Sent /\ ledmat._contrast = <<1, 1>> /\ ledmat._gamma = 1) =>
        \A i \in 1..Len(ledmat.pixel_data) :
            /\ ledmat.pixel_data[i] = 0 => ledLast.wire[2][i] = 0
            /\ ledmat.pixel_data[i] = 255 =>
                  ledLast.wire[2][i] =
                      Min(255, RoundHalfEven(255 * ledmat._brightness[1],
                                             ledmat._brightness[2]))

\* ---------------------------------------------------- accumulator claims
\* the Bin objects the slots refer to
LiveBins ==
    { accumulator.heap[accumulator.bins[c]][1] :
        c \in { d \in 1..AccWidth(accumulator) : accumulator.bins[d] # 0 } }

\* C17: a bin is full once the sizes settled in it total its capacity
\* (full_level, the size that created it times bin_level_scaler) and is
\* not full while they total less; its level stays within 0..full_level.
C17_FullAtCapacity ==
    \A b \in LiveBins :
        /\ b._level >= 0
        /\ b._level <= b.full_level
        /\ \E s \in SnowflakeSizes :
              b.full_level = s * accumulator.bin_level_scaler
        /\ b.settled >= b.full_level => Bin_full(b)
        /\ b.settled < b.full_level => ~Bin_full(b)

\* C17 witness: a bin that took several snowflakes holds exactly its
\* capacity and is full.
C17_FilledExactly ==
    \E b \in LiveBins :
        /\ b.settled = b.full_level
        /\ Bin_full(b)
        /\ \A s \in SnowflakeSizes : b.full_level > s

\* C18 as stated: a call of accumulate() that leaves every slot covered by
\* a full bin increments layers by exactly one and empties every slot; any
\* other call leaves layers alone and does not empty the slots.
C18_CoveredRowIncrements ==
    (accLast.op = "accumulate" /\ accLast.ret = <<TRUE>>) =>
        IF accLast.covered
        THEN /\ accumulator.layers = accLast.layers_before + 1
             /\ \A c \in 1..AccWidth(accumulator) : accumulator.bins[c] = 0
        ELSE /\ accumulator.layers = accLast.layers_before
             /\ \E c \in 1..AccWidth(accumulator) : accumulator.bins[c] # 0

\* C18 amended: a call of accumulate() that leaves every slot covered by a
\* full bin empties every slot and increments layers by one, except that
\* layers becomes 1 when the increment reaches the matrix height; any other
\* call leaves layers alone and does not empty the slots.
C18_CoveredRowPromotes ==
    (accLast.op = "accumulate" /\ accLast.ret = <<TRUE>>) =>
        IF accLast.covered
        THEN /\ accumulator.layers =
                   IF accLast.layers_before + 1 = AccHeight(accumulator)
                   THEN 1 ELSE accLast.layers_before + 1
             /\ \A c \in 1..AccWidth(accumulator) : accumulator.bins[c] = 0
        ELSE /\ accumulator.layers = accLast.layers_before
             /\ \E c \in 1..AccWidth(accumulator) : accumulator.bins[c] # 0

\* C18 witness: a call covered the first row of a pile with room for a
\* second one.
C18_SecondLayerStarted ==
    /\ accLast.covered
    /\ accLast.layers_before = 1
    /\ accumulator.layers = 2
    /\ AccWidth(accumulator) > 1

\* C19: when a promotion makes layers equal to the matrix height, the same
\* call clears the matrix and sets layers to 1, so 1 <= layers < height in
\* every state.
C19_PileStaysBelowHeight ==
    /\ accumulator.layers >= 1
    /\ accumulator.layers < AccHeight(accumulator)
    /\ (accLast.covered
          /\ accLast.layers_before + 1 = AccHeight(accumulator)) =>
          /\ accumulator.layers = 1
          /\ \A r \in 1..AccHeight(accumulator),
                c \in 1..AccWidth(accumulator) :
                accumulator.matrix[r][c] = 0

\* C19 witness: the pile was cleared by a promotion from the second layer
C19_PileCleared ==
    /\ accLast.covered
    /\ accLast.layers_before = 2
    /\ accumulator.layers = 1

\* C20: accumulate() never raises ('No fillable bin found', the assertion
\* of _new_bin), and a call whose rounded x is a column returns True after
\* settling the snowflake in a bin that was not full before the call.
C20_AlwaysSettles ==
    accLast.op = "accumulate" =>
        /\ accLast.exc = "none"
        /\ accLast.on_pile =>
              /\ accLast.ret = <<TRUE>>
              /\ ~accLast.into_full

\* C20 witness: the snowflake landed on a full bin and was settled in the
\* closest fillable one.
C20_SettledNextToFullBin ==
    /\ accLast.searched
    /\ accLast.ret = <<TRUE>>
    /\ ~accLast.covered

\* C27 as stated: when _new_bin is called for a snowflake of size s on an
\* empty column x whose run of empty columns holds at least s columns, the
\* new bin is exactly s columns wide; it is narrower only when the run is
\* shorter than s.
C27_FullWidthWhenRoom ==
    (accLast.op = "accumulate" /\ accLast.made # <<>>) =>
        LET m == accLast.made[1] IN
        /\ m.room >= m.size => m.width = m.size
        /\ m.width < m.size => m.room < m.size

\* C29: every bin a slot refers to is at least one column wide, lies
\* inside the row, and is referred to by exactly the slots idx..idx+width-1
\* (so the ranges of two bins do not overlap); and _new_bin wrote no slot
\* that held a bin.
C29_SlotsMatchBins ==
    /\ \A c \in 1..AccWidth(accumulator) :
          accumulator.bins[c] # 0 =>
              LET r == accumulator.bins[c]
                  b == accumulator.heap[r][1]
              IN  /\ accumulator.heap[r] # <<>>
                  /\ b.width >= 1
                  /\ b.idx >= 0
                  /\ b.idx + b.width <= AccWidth(accumulator)
                  /\ { d \in 1..AccWidth(accumulator) :
                         accumulator.bins[d] = r }
                       = (b.idx + 1)..(b.idx + b.width)
    /\ accLast.made # <<>> => accLast.made[1].taken = 0

\* C29 witness: a bin two columns wide was made next to another bin
C29_WideBinBesideBin ==
    /\ accLast.made # <<>>
    /\ accLast.made[1].width = 2
    /\ accLast.made[1].room = 2
    /\ \E c \in 1..AccWidth(accumulator) :
          /\ accumulator.bins[c] # 0
          /\ accumulator.heap[accumulator.bins[c]][1].width = 1

\* C25 as stated: when the serial write raises inside send_matrix() called
\* from update(), the exception leaves update() without a return value and
\* the frame is not retried: while the player is PLAYING, an update()
\* called before any time has passed since the failed attempt neither
\* renders a frame nor sends one, whether the source is animated or static.
C25_FailedWriteNotRetried ==
    [][(last.op = "update" /\ last.exc = "SerialException"
          /\ player.playing_state = "PLAYING") =>
          /\ last.ret = <<>>
          /\ last'.op = "update" => last'.framer_update = "not called"]_vars

\* ---------------------------------------------------- stream framer claims
\* C23 as stated: in every interleaving of new_data() with update(), no
\* update() reads fields assigned by different calls of new_data() (the
\* index or the timer of one batch with the frame list of another, a frame
\* of the old list after the index was reset for the new one), and an
\* update() that ran beside a new_data() raises no IndexError.
C23_HandoffAtomic ==
    streamLast.op = "update" =>
        /\ ~streamLast.torn
        /\ ~streamLast.clean => streamLast.exc # "IndexError"

\* C24 as stated: after a batch of n >= 1 frames was handed over, every
\* update() with no new_data() beside it returns a frame of the batch
\* without raising, and leaves frame_idx within 0..n-1, also after the last
\* frame of the batch was shown.
C24_BatchKeepsPlaying ==
    (streamLast.op = "update" /\ streamLast.clean /\ streamLast.n >= 1) =>
        /\ streamLast.exc = "none"
        /\ streamLast.ret # <<>>
        /\ streamLast.idx \in 0..(streamLast.n - 1)

\* C30 as stated: in every interleaving, once kill() has cleared the flag
\* and waits in join(), the worker leaves its loop and join() returns.
C30_KillHalts == (render.pc = "join") ~> render.killed

\* ------------------------------------------------------ color field claim
\* C22: for a value v in [0, 1] and a colour map of n >= 2 stops, the
\* colour is the rounded linear interpolation between stop i and stop i+1,
\* i being floor(v (n-1)) clamped to n-2; value 0 gives stop 0 and value 1
\* gives stop n-1.
C22_InterpolatesBetweenStops ==
    colorField.op = "update" =>
        LET cm == colorField.color_map
            n == Len(cm)
            vn == colorField.value[1]
            vd == colorField.value[2]
            fl == CHOOSE k \in 0..(n - 1) :
                      k * vd <= vn * (n - 1) /\ vn * (n - 1) < (k + 1) * vd
            i == IF fl > n - 2 THEN n - 2 ELSE fl
            lo == cm[i + 1]
            hi == cm[i + 2]
        IN  /\ n >= 2
            /\ colorField.color # <<>>
            /\ colorField.color[1] =
                  RoundHalfEven(lo * vd + (hi - lo) * (vn * (n - 1) - i * vd),
                                vd)
            /\ vn = 0 => colorField.color[1] = cm[1]
            /\ vn = vd => colorField.color[1] = cm[n]

\* C22 witness: value 1 under a map of three stops gives the last stop,
\* which differs from the one before it; the index was clamped.
C22_LastStopAtOne ==
    /\ colorField.op = "update"
    /\ colorField.value[1] = colorField.value[2]
    /\ Len(colorField.color_map) = 3
    /\ colorField.color_map[2] # colorField.color_map[3]
    /\ colorField.color = <<colorField.color_map[3]>>

\* -------------------------------------------------- snow animation claims
\* the snowflake of a fate lies outside the frame: x + size <= 0, or
\* x >= WIDTH, or y >= HEIGHT - layers, or y + size <= 0, layers being the
\* value read when the snowflake was examined
Outside(fate) ==
    \/ fate.snowflake.x + fate.snowflake.size <= 0
    \/ fate.snowflake.x >= AccWidth(accumulator)
    \/ fate.snowflake.y >= AccHeight(accumulator) - fate.layers
    \/ fate.snowflake.y + fate.snowflake.size <= 0

Fates == { snowLast.fates[i] : i \in 1..Len(snowLast.fates) }

\* C21: in every update(), a snowflake that is outside the frame after the
\* integration is not composited into the frame (no call of place_in) and
\* is not retained in the list of snowflakes; the list and the frame hold
\* the other snowflakes only.
C21_OutsideNeverDrawn ==
    (snowLast.op = "update" /\ snowLast.exc = "none") =>
        /\ \A fate \in Fates : Outside(fate) => ~fate.placed /\ ~fate.kept
        /\ Len(snow.snowflakes) =
              Cardinality({ i \in 1..Len(snowLast.fates) :
                              ~Outside(snowLast.fates[i]) })
        /\ Len(snow.matrix.placed) = Len(snow.snowflakes)

\* C21 witness: a snowflake in a row that is visible over a pile of one
\* layer was dropped because the pile had two layers when it was examined.
C21_DroppedOnSecondLayer ==
    /\ snowLast.op = "update"
    /\ \E fate \in Fates :
          /\ fate.layers = 2
          /\ fate.snowflake.y = AccHeight(accumulator) - 2
          /\ fate.snowflake.x >= 0
          /\ fate.snowflake.x < AccWidth(accumulator)
          /\ ~fate.kept /\ ~fate.placed

\* C26: in every update(), a snowflake that left the frame through the
\* bottom (y >= HEIGHT - layers) is handed to accumulate() exactly once
\* and not retained, one that left through another side only is dropped
\* without a call of accumulate(), and one still in frame is retained and
\* not handed to accumulate().
C26_AccumulatedOrDiscarded ==
    snowLast.op = "update" =>
        \A fate \in Fates :
            /\ ~Outside(fate) => fate.kept /\ fate.handed = 0
            /\ (fate.snowflake.y >= AccHeight(accumulator) - fate.layers) =>
                   ~fate.kept /\ fate.handed = 1
            /\ (Outside(fate)
                  /\ fate.snowflake.y < AccHeight(accumulator) - fate.layers)
                   => ~fate.kept /\ fate.handed = 0
            /\ ~(fate.kept /\ fate.handed > 0)

\* C26 witness: one update() handed a snowflake to the accumulator and
\* dropped another that left through the left or the right side.
C26_OneSettledOneBlownOut ==
    /\ snowLast.op = "update"
    /\ \E fate \in Fates : fate.handed = 1
    /\ \E fate \in Fates :
          /\ fate.snowflake.y < AccHeight(accumulator) - fate.layers
          /\ fate.snowflake.y + fate.snowflake.size > 0
          /\ Outside(fate)
          /\ fate.handed = 0

\* C28 as stated: after reset() there are no snowflakes, the frame is all
\* zero, and the accumulator is at layer 1 with no bins and an all-zero
\* matrix.
C28_ResetRestoresInitial ==
    snowLast.op = "reset" =>
        /\ snow.snowflakes = <<>>
        /\ snow.matrix = [placed |-> <<>>, pile |-> <<>>]
        /\ accumulator.layers = 1
        /\ \A c \in 1..AccWidth(accumulator) : accumulator.bins[c] = 0
        /\ \A r \in 1..AccHeight(accumulator),
              c \in 1..AccWidth(accumulator) : accumulator.matrix[r][c] = 0

====
